---- MODULE Spec2Model ----
(***************************************************************************)
(* Model of scripts/populate-known-masters.py.                             *)
(*                                                                         *)
(* One invocation of the script is one process: argparse validates argv,   *)
(* main() builds the set of known masters, merges the three supplied       *)
(* lists, reads the .spriggit file, replaces its KnownMasters key, sorts   *)
(* the list and writes the document back.  Successive invocations against  *)
(* the same file with the same argv are modelled by Rerun.                 *)
(*                                                                         *)
(* Python strings are modelled as tuples of code points, so that           *)
(* str.lower() and the ordering of strings are computed, not assumed.      *)
(* A Python set is modelled as its hash table: iteration yields the        *)
(* entries in slot order, and str hashes are salted per process.           *)
(***************************************************************************)
EXTENDS Integers, Sequences, FiniteSets, TLC

VARIABLES
    argv,           \* sys.argv[1:] of every invocation
    file,           \* content of the spriggit file on disk
    run,            \* number of the current invocation
    pc,             \* position of the current invocation
    seed,           \* the str hash salt of the current process
    args,           \* the namespace returned by parse_args
    known_masters,  \* main: the set known_masters (hash table)
    i,              \* main: number of supplied names already merged
    stdout,         \* names printed in duplicate warnings, in order
    content,        \* main: spriggit_file_content
    file0,          \* history: disk content when the current process started
    opened_w,       \* history: the current process opened the file with "w"
    written         \* history: the KnownMasters arrays written by the completed runs

vars == <<argv, file, run, pc, seed, args, known_masters, i, stdout,
          content, file0, opened_w, written>>

----------------------------------------------------------------------------
(* Bounds *)

MaxArgv == 4        \* longest command line explored
MaxHashSeed == 1    \* hash salts explored are 0..MaxHashSeed
MaxRuns == 2        \* successive invocations explored

----------------------------------------------------------------------------
(* String literals, as code points *)

Starfield_esm == <<83, 116, 97, 114, 102, 105, 101, 108, 100, 46, 101, 115, 109>>
SFBGS003_esm == <<83, 70, 66, 71, 83, 48, 48, 51, 46, 101, 115, 109>>
SFBGS004_esm == <<83, 70, 66, 71, 83, 48, 48, 52, 46, 101, 115, 109>>
SFBGS006_esm == <<83, 70, 66, 71, 83, 48, 48, 54, 46, 101, 115, 109>>
SFBGS007_esm == <<83, 70, 66, 71, 83, 48, 48, 55, 46, 101, 115, 109>>
SFBGS008_esm == <<83, 70, 66, 71, 83, 48, 48, 56, 46, 101, 115, 109>>
BlueprintShips_Starfield_esm ==
    <<66, 108, 117, 101, 112, 114, 105, 110, 116, 83, 104, 105, 112, 115, 45,
      83, 116, 97, 114, 102, 105, 101, 108, 100, 46, 101, 115, 109>>
Constellation_esm ==
    <<67, 111, 110, 115, 116, 101, 108, 108, 97, 116, 105, 111, 110, 46, 101, 115, 109>>
OldMars_esm == <<79, 108, 100, 77, 97, 114, 115, 46, 101, 115, 109>>
ShatteredSpace_esm ==
    <<83, 104, 97, 116, 116, 101, 114, 101, 100, 83, 112, 97, 99, 101, 46, 101, 115, 109>>

\* MasterType: "Full", "Medium", "Small"
FULL == <<70, 117, 108, 108>>
MEDIUM == <<77, 101, 100, 105, 117, 109>>
SMALL == <<83, 109, 97, 108, 108>>

MasterType == {FULL, MEDIUM, SMALL}

\* "--full-masters", "--medium-masters", "--small-masters", "--sort-by"
opt_full_masters == <<45, 45, 102, 117, 108, 108, 45, 109, 97, 115, 116, 101, 114, 115>>
opt_medium_masters ==
    <<45, 45, 109, 101, 100, 105, 117, 109, 45, 109, 97, 115, 116, 101, 114, 115>>
opt_small_masters ==
    <<45, 45, 115, 109, 97, 108, 108, 45, 109, 97, 115, 116, 101, 114, 115>>
opt_sort_by == <<45, 45, 115, 111, 114, 116, 45, 98, 121>>

\* "name", "type"
sort_name == <<110, 97, 109, 101>>
sort_type == <<116, 121, 112, 101>>

sort_by_choices == {sort_name, sort_type}

\* "Foo.esm": a name that is neither built in nor given on the command line
Foo_esm == <<70, 111, 111, 46, 101, 115, 109>>

\* Names given on the command line: "oldMars.esm" (a new name, equal to the
\* built-in "OldMars.esm" once lowercased) and "Starfield.esm" (a built-in name)
oldMars_esm == <<111, 108, 100, 77, 97, 114, 115, 46, 101, 115, 109>>

SuppliedNames == {oldMars_esm, Starfield_esm}

----------------------------------------------------------------------------
(* str operations *)

\* str.lower() on ASCII: 'A'..'Z' map to 'a'..'z'
lower(s) == [k \in 1..Len(s) |-> IF s[k] \in 65..90 THEN s[k] + 32 ELSE s[k]]

\* a < b for Python strings: lexicographic by code point
RECURSIVE str_lt_from(_, _, _)
str_lt_from(a, b, k) ==
    IF k > Len(b) THEN FALSE
    ELSE IF k > Len(a) THEN TRUE
    ELSE IF a[k] # b[k] THEN a[k] < b[k]
    ELSE str_lt_from(a, b, k + 1)

str_lt(a, b) == str_lt_from(a, b, 1)

str_le(a, b) == ~str_lt(b, a)

\* hash(str): salted per process (PYTHONHASHSEED is random by default).  The
\* salted hash is abstracted to a polynomial hash started from the salt.
HashMod == 65536

RECURSIVE str_hash_from(_, _, _)
str_hash_from(s, k, h) ==
    IF k > Len(s) THEN h
    ELSE str_hash_from(s, k + 1, (h * 31 + s[k] * ((h % 7) + 1)) % HashMod)

str_hash(s, salt) == str_hash_from(s, 1, (5381 + salt) % HashMod)

----------------------------------------------------------------------------
(* class Master(dict) *)

\* Master.__init__: the attributes name and type; the dict items ModKey and
\* Style always hold the same two values and are produced on serialisation
Master(name, type) == [name |-> name, type |-> type]

\* the dict items of a Master, as json.dump sees them
Master_items(m) == [ModKey |-> m.name, Style |-> m.type]

\* Master.__hash__
Master_hash(m, salt) == str_hash(m.name, salt)

\* variant: equality on name and type, as the inherited dict equality would be
Master_eq_name_and_type(a, b) == a.name = b.name /\ a.type = b.type

\* Master.__eq__
Master_eq(a, b) == a.name = b.name

----------------------------------------------------------------------------
(* set: an open-addressing hash table; a slot holds <<>> or <<entry>> *)

TableSize == 32

Slots == 0..(TableSize - 1)

EmptyTable == [s \in Slots |-> <<>>]

\* len(set)
set_len(table) == Cardinality({s \in Slots : table[s] # <<>>})

\* variant: an equal entry is replaced by the new one
RECURSIVE probe_replace(_, _, _)
probe_replace(table, m, s) ==
    IF table[s] = <<>> THEN [table EXCEPT ![s] = <<m>>]
    ELSE IF Master_eq(table[s][1], m) THEN [table EXCEPT ![s] = <<m>>]
    ELSE probe_replace(table, m, (s + 1) % TableSize)

\* set.add probing from slot s: an equal entry leaves the table as it is
RECURSIVE probe(_, _, _)
probe(table, m, s) ==
    IF table[s] = <<>> THEN [table EXCEPT ![s] = <<m>>]
    ELSE IF Master_eq(table[s][1], m) THEN table
    ELSE probe(table, m, (s + 1) % TableSize)

set_add_replace(table, m, salt) ==
    probe_replace(table, m, Master_hash(m, salt) % TableSize)

\* set.add(m)
set_add(table, m, salt) == probe(table, m, Master_hash(m, salt) % TableSize)

\* set(list)
RECURSIVE set_from_list(_, _, _)
set_from_list(list, k, salt) ==
    IF k = 0 THEN EmptyTable
    ELSE set_add(set_from_list(list, k - 1, salt), list[k], salt)

\* iteration over a set: the entries in slot order
RECURSIVE set_iter_from(_, _)
set_iter_from(table, s) ==
    IF s = TableSize THEN <<>>
    ELSE table[s] \o set_iter_from(table, s + 1)

set_iter(table) == set_iter_from(table, 0)

----------------------------------------------------------------------------
(* dict and json *)

\* The in-memory document is a dict: its items in insertion order.
\* dict[key] = value: an existing key keeps its position
\* variant: the assignment starts a new document
dict_setitem_fresh(d, key, value) == <<[key |-> key, value |-> value]>>

\* variant: the assignment keeps what an array read from the file held
plain_items(list) ==
    LET plain == SelectSeq(list, LAMBDA it : "ModKey" \in DOMAIN it)
    IN [l \in 1..Len(plain) |-> Master(plain[l].ModKey, plain[l].Style)]

dict_setitem_extend(d, key, value) ==
    IF \E k \in 1..Len(d) : d[k].key = key
    THEN [k \in 1..Len(d) |->
            IF d[k].key = key
            THEN [key |-> key,
                  value |-> [value EXCEPT !.items =
                                @ \o plain_items(d[k].value.items)]]
            ELSE d[k]]
    ELSE Append(d, [key |-> key, value |-> value])

dict_setitem(d, key, value) ==
    IF \E k \in 1..Len(d) : d[k].key = key
    THEN [k \in 1..Len(d) |->
            IF d[k].key = key THEN [key |-> key, value |-> value] ELSE d[k]]
    ELSE Append(d, [key |-> key, value |-> value])

dict_keys(d) == {d[k].key : k \in 1..Len(d)}

\* dict[key]
dict_get(d, key) == d[CHOOSE k \in 1..Len(d) : d[k].key = key].value

\* A JSON value on disk is a number, an array of {"ModKey", "Style"} objects
\* or an object; a dict value in memory is a number or a list.
json_number(n) == [t |-> "number", n |-> n, items |-> <<>>]

json_array(items) == [t |-> "array", n |-> 0, items |-> items]

py_list(items) == [t |-> "list", n |-> 0, items |-> items]

\* json.dump of one value: a Master is written as its dict items
json_dump_value(v) ==
    IF v.t = "number" THEN json_number(v.n)
    ELSE json_array([k \in 1..Len(v.items) |-> Master_items(v.items[k])])

\* json.load of one value: an object is read as a plain dict
json_load_value(v) ==
    IF v.t = "number" THEN json_number(v.n)
    ELSE py_list(v.items)

\* json.dump(spriggit_file_content, f, indent=2): the text of an object
json_dump(d) ==
    [t |-> "object",
     members |-> [k \in 1..Len(d) |->
                    [key |-> d[k].key, value |-> json_dump_value(d[k].value)]]]

\* json.load of the text of an object
json_load(text) ==
    [k \in 1..Len(text.members) |->
        [key |-> text.members[k].key,
         value |-> json_load_value(text.members[k].value)]]

----------------------------------------------------------------------------
(* argparse, as configured in the __main__ block *)

\* an argument string that starts with the prefix character '-' is an option
is_option(tok) == Len(tok) > 0 /\ tok[1] = 45

\* "--option=value": the position of the first '=', or 0
eq_index(tok) ==
    IF \E k \in 1..Len(tok) : tok[k] = 61
    THEN CHOOSE k \in 1..Len(tok) :
            tok[k] = 61 /\ \A l \in 1..(k - 1) : tok[l] # 61
    ELSE 0

option_string(tok) ==
    IF eq_index(tok) = 0 THEN tok ELSE SubSeq(tok, 1, eq_index(tok) - 1)

explicit_arg(tok) == SubSeq(tok, eq_index(tok) + 1, Len(tok))

list_options == {opt_full_masters, opt_medium_masters, opt_small_masters}

\* the defaults of the namespace
default_namespace ==
    [full_masters |-> <<>>, medium_masters |-> <<>>, small_masters |-> <<>>,
     sort_by |-> sort_name]

\* variant: nargs="*"
nargs_star(n) == n >= 0

\* nargs="+": the number of values an occurrence of a list option may take
nargs_plus(n) == n >= 1

\* number of consecutive non-option argument strings from position p
RECURSIVE count_values(_, _)
count_values(a, p) ==
    IF p > Len(a) \/ is_option(a[p]) THEN 0 ELSE 1 + count_values(a, p + 1)

\* action "store" of a list option
store_list(ns, opt, values) ==
    IF opt = opt_full_masters THEN [ns EXCEPT !.full_masters = values]
    ELSE IF opt = opt_medium_masters THEN [ns EXCEPT !.medium_masters = values]
    ELSE [ns EXCEPT !.small_masters = values]

\* parser.parse_args(): ok is FALSE where argparse prints a usage error and
\* exits with status 2
RECURSIVE parse_from(_, _, _)
parse_from(a, p, ns) ==
    IF p > Len(a) THEN [ok |-> TRUE, ns |-> ns]
    ELSE IF ~is_option(a[p])
    THEN [ok |-> FALSE, ns |-> ns]                \* unrecognized arguments
    ELSE IF option_string(a[p]) \in list_options THEN
        IF eq_index(a[p]) # 0
        THEN parse_from(a, p + 1,
                        store_list(ns, option_string(a[p]), <<explicit_arg(a[p])>>))
        ELSE LET n == count_values(a, p + 1) IN
             IF nargs_plus(n)
             THEN parse_from(a, p + n + 1,
                             store_list(ns, a[p], SubSeq(a, p + 1, p + n)))
             ELSE [ok |-> FALSE, ns |-> ns]       \* expected at least one argument
    ELSE IF option_string(a[p]) = opt_sort_by THEN
        IF eq_index(a[p]) = 0 /\ count_values(a, p + 1) = 0
        THEN [ok |-> FALSE, ns |-> ns]            \* expected one argument
        ELSE LET value == IF eq_index(a[p]) # 0 THEN explicit_arg(a[p])
                          ELSE a[p + 1]
                 next == IF eq_index(a[p]) # 0 THEN p + 1 ELSE p + 2
             IN IF value \notin sort_by_choices
                THEN [ok |-> FALSE, ns |-> ns]    \* invalid choice
                ELSE parse_from(a, next, [ns EXCEPT !.sort_by = value])
    ELSE [ok |-> FALSE, ns |-> ns]                \* unrecognized arguments

parse_args(a) == parse_from(a, 1, default_namespace)

----------------------------------------------------------------------------
(* main *)

\* the list the set known_masters is built from
builtin_masters ==
    << Master(Starfield_esm, FULL),
       Master(SFBGS003_esm, MEDIUM),
       Master(SFBGS004_esm, SMALL),
       Master(SFBGS006_esm, MEDIUM),
       Master(SFBGS007_esm, SMALL),
       Master(SFBGS008_esm, SMALL),
       Master(BlueprintShips_Starfield_esm, FULL),
       Master(Constellation_esm, SMALL),
       Master(OldMars_esm, SMALL),
       Master(ShatteredSpace_esm, FULL) >>

typed(list, type) == [k \in 1..Len(list) |-> Master(list[k], type)]

\* the Masters the two nested for loops construct, in order
merge_order(ns) ==
    typed(ns.full_masters, FULL) \o typed(ns.medium_masters, MEDIUM)
        \o typed(ns.small_masters, SMALL)

\* tuple comparison of (str, str) keys
pair_lt(x, y) == str_lt(x[1], y[1]) \/ (x[1] = y[1] /\ str_lt(x[2], y[2]))

\* variant: the name as it is spelled
key_name_raw(master) == master.name

\* lambda master: master.name.lower()
key_name(master) == lower(master.name)

\* variant: the type left out of the key
key_type_name_only(master) == <<<<>>, lower(master.name)>>

\* lambda master: (master.type.lower(), master.name.lower())
key_type(master) == <<lower(master.type), lower(master.name)>>

\* the key function of the selected sort, applied once to each element
sort_key(sort_by, master) ==
    IF sort_by = sort_name THEN <<key_name(master)>> ELSE key_type(master)

\* x < y for two keys of the selected sort
key_lt(sort_by, x, y) ==
    IF sort_by = sort_name THEN str_lt(x[1], y[1]) ELSE pair_lt(x, y)

\* list.sort is stable: an element goes before the first one with a greater
\* key; the list holds <<key, element>> pairs
insert(sorted, x, sort_by) ==
    LET after == {k \in 1..Len(sorted) : key_lt(sort_by, x[1], sorted[k][1])}
        p == IF after = {} THEN Len(sorted) + 1
             ELSE CHOOSE k \in after : \A l \in after : k <= l
    IN SubSeq(sorted, 1, p - 1) \o <<x>> \o SubSeq(sorted, p, Len(sorted))

RECURSIVE list_sort_first(_, _, _)
list_sort_first(keyed, n, sort_by) ==
    IF n = 0 THEN <<>>
    ELSE insert(list_sort_first(keyed, n - 1, sort_by), keyed[n], sort_by)

\* list.sort(key=...): decorate with the keys, sort, undecorate
list_sort_by_key(list, sort_by) ==
    LET keyed == [k \in 1..Len(list) |-> <<sort_key(sort_by, list[k]), list[k]>>]
        sorted == list_sort_first(keyed, Len(keyed), sort_by)
    IN [k \in 1..Len(sorted) |-> sorted[k][2]]

\* match sort_by: the two cases sort, any other value leaves the list alone
list_sort(list, sort_by) ==
    IF sort_by \in {sort_name, sort_type}
    THEN list_sort_by_key(list, sort_by)
    ELSE list

----------------------------------------------------------------------------
(* the spriggit file *)

EmptyText == [t |-> "empty", members |-> <<>>]

NoFile == [exists |-> FALSE, text |-> EmptyText]

TextFile(text) == [exists |-> TRUE, text |-> text]

ObjectText(members) == [t |-> "object", members |-> members]

\* {"OtherKey": 1}
OtherKeyOnly == ObjectText(<<[key |-> "OtherKey", value |-> json_number(1)]>>)

\* {"OtherKey": 1, "KnownMasters": [{"ModKey": "Foo.esm", "Style": "Small"}],
\*  "Version": 2}
WithOldMasters ==
    ObjectText(<<[key |-> "OtherKey", value |-> json_number(1)],
                 [key |-> "KnownMasters",
                  value |-> json_array(<<[ModKey |-> Foo_esm, Style |-> SMALL]>>)],
                 [key |-> "Version", value |-> json_number(2)]>>)

\* the file before the first invocation: absent, not JSON, a JSON array, or
\* a JSON object with or without a KnownMasters key
InitialFiles ==
    { NoFile,
      TextFile([t |-> "malformed", members |-> <<>>]),
      TextFile([t |-> "array", members |-> <<>>]),
      TextFile(OtherKeyOnly),
      TextFile(WithOldMasters) }

NoContent == [t |-> "none", d |-> <<>>]

\* variant: every failure of the read yields the empty document
read_catch_all(f) ==
    IF ~f.exists \/ f.text.t \in {"malformed", "empty"}
    THEN [raised |-> FALSE, content |-> [t |-> "dict", d |-> <<>>]]
    ELSE IF f.text.t = "array"
    THEN [raised |-> FALSE, content |-> [t |-> "list", d |-> <<>>]]
    ELSE [raised |-> FALSE, content |-> [t |-> "dict", d |-> json_load(f.text)]]

\* try: json.load(open(spriggit_file, "r")) except FileNotFoundError: {}
read_spriggit_file(f) ==
    IF ~f.exists
    THEN [raised |-> FALSE, content |-> [t |-> "dict", d |-> <<>>]]
    ELSE IF f.text.t \in {"malformed", "empty"}
    THEN [raised |-> TRUE, content |-> NoContent]      \* JSONDecodeError
    ELSE IF f.text.t = "array"
    THEN [raised |-> FALSE, content |-> [t |-> "list", d |-> <<>>]]
    ELSE [raised |-> FALSE, content |-> [t |-> "dict", d |-> json_load(f.text)]]

----------------------------------------------------------------------------
(* The state machine *)

\* "--sort-by=type"
sort_by_type_arg == opt_sort_by \o <<61>> \o sort_type

\* the argument strings command lines are made of (sorting by name is the
\* default and needs no argument)
Tokens == list_options \cup {sort_by_type_arg} \cup SuppliedNames

ArgvSet == UNION {[1..n -> Tokens] : n \in 0..MaxArgv}

HashSeeds == 0..MaxHashSeed

Init ==
    /\ argv \in ArgvSet
    /\ file \in InitialFiles
    /\ run = 1
    /\ pc = "start"
    /\ seed = 0
    /\ args = default_namespace
    /\ known_masters = EmptyTable
    /\ i = 0
    /\ stdout = <<>>
    /\ content = NoContent
    /\ file0 = file
    /\ opened_w = FALSE
    /\ written = <<>>

\* __main__: parser.parse_args() rejects the command line and exits
UsageError ==
    /\ pc = "start"
    /\ ~parse_args(argv).ok
    /\ pc' = "usage_error"
    /\ UNCHANGED <<argv, file, run, seed, args, known_masters, i, stdout,
                   content, file0, opened_w, written>>

\* __main__: parser.parse_args() accepts the command line; main is called
ParseArgs ==
    /\ pc = "start"
    /\ parse_args(argv).ok
    /\ args' = parse_args(argv).ns
    /\ pc' = "main"
    /\ UNCHANGED <<argv, file, run, seed, known_masters, i, stdout, content,
                   file0, opened_w, written>>

\* main: known_masters = set([...]); the hash salt of the process, any of
\* HashSeeds, shows for the first time in the layout of the set
BuildKnownMasters ==
    /\ pc = "main"
    /\ seed' \in HashSeeds
    /\ known_masters' = set_from_list(builtin_masters, Len(builtin_masters), seed')
    /\ i' = 0
    /\ pc' = "merge"
    /\ UNCHANGED <<argv, file, run, args, stdout, content, file0,
                   opened_w, written>>

\* main: one iteration of the inner for loop
MergeMaster ==
    /\ pc = "merge"
    /\ i < Len(merge_order(args))
    /\ LET master == merge_order(args)[i + 1]
           known_master_size_old == set_len(known_masters)
           added == set_add(known_masters, master, seed)
       IN /\ known_masters' = added
          /\ stdout' = IF known_master_size_old = set_len(added)
                       THEN Append(stdout, master.name)
                       ELSE stdout
    /\ i' = i + 1
    /\ UNCHANGED <<argv, file, run, pc, seed, args, content, file0,
                   opened_w, written>>

\* main: the try statement that reads the existing file
ReadFile ==
    /\ pc = "merge"
    /\ i = Len(merge_order(args))
    /\ LET r == read_spriggit_file(file)
       IN IF r.raised
          THEN /\ pc' = "crashed"                           \* JSONDecodeError
               /\ content' = NoContent
               /\ known_masters' = EmptyTable
               /\ seed' = 0
          ELSE /\ pc' = "assign"
               /\ content' = r.content
               /\ UNCHANGED <<known_masters, seed>>
    /\ UNCHANGED <<argv, file, run, args, i, stdout, file0, opened_w, written>>

\* main: spriggit_file_content["KnownMasters"] = [master for master in known_masters]
AssignKnownMasters ==
    /\ pc = "assign"
    /\ IF content.t = "dict"
       THEN /\ content' = [content EXCEPT !.d =
                    dict_setitem(@, "KnownMasters", py_list(set_iter(known_masters)))]
            /\ pc' = "sort"
            /\ UNCHANGED <<known_masters, seed>>
       ELSE /\ pc' = "crashed"                              \* TypeError
            /\ content' = NoContent
            /\ known_masters' = EmptyTable
            /\ seed' = 0
    /\ UNCHANGED <<argv, file, run, args, i, stdout, file0, opened_w, written>>

\* main: the match statement
SortKnownMasters ==
    /\ pc = "sort"
    /\ content' = [content EXCEPT !.d =
            dict_setitem(@, "KnownMasters",
                py_list(list_sort(dict_get(@, "KnownMasters").items, args.sort_by)))]
    /\ pc' = "write"
    /\ UNCHANGED <<argv, file, run, seed, args, known_masters, i, stdout,
                   file0, opened_w, written>>

\* main: open(spriggit_file, "w") creates or truncates the file
OpenForWrite ==
    /\ pc = "write"
    /\ file' = TextFile(EmptyText)
    /\ opened_w' = TRUE
    /\ pc' = "dump"
    /\ UNCHANGED <<argv, run, seed, args, known_masters, i, stdout, content,
                   file0, written>>

\* main: json.dump(spriggit_file_content, f, indent=2); return 0.  The
\* objects of a process that has ended are gone; what it printed, what it
\* was given and what it left on disk remain.
JsonDump ==
    /\ pc = "dump"
    /\ file' = TextFile(json_dump(content.d))
    /\ written' = Append(written,
                    dict_get(json_dump(content.d).members, "KnownMasters").items)
    /\ pc' = "done"
    /\ content' = NoContent
    /\ known_masters' = EmptyTable
    /\ seed' = 0
    /\ UNCHANGED <<argv, run, args, i, stdout, file0, opened_w>>

\* the script is invoked again with the same arguments on the same file (an
\* invocation that argparse rejected has touched nothing and is not repeated)
Rerun ==
    /\ pc \in {"done", "crashed"}
    /\ run < MaxRuns
    /\ run' = run + 1
    /\ pc' = "start"
    /\ args' = default_namespace
    /\ i' = 0
    /\ stdout' = <<>>
    /\ file0' = file
    /\ opened_w' = FALSE
    /\ UNCHANGED <<argv, file, seed, known_masters, content, written>>

Next ==
    \/ UsageError
    \/ ParseArgs
    \/ BuildKnownMasters
    \/ MergeMaster
    \/ ReadFile
    \/ AssignKnownMasters
    \/ SortKnownMasters
    \/ OpenForWrite
    \/ JsonDump
    \/ Rerun

Spec == Init /\ [][Next]_vars

----------------------------------------------------------------------------
(* Properties *)

\* the KnownMasters array of a document on disk
KnownMastersOf(text) == dict_get(text.members, "KnownMasters").items

\* the entries of a set
Entries(table) == {table[s][1] : s \in {x \in Slots : table[x] # <<>>}}

Range(list) == {list[k] : k \in 1..Len(list)}

BuiltinNames ==
    {Starfield_esm, SFBGS003_esm, SFBGS004_esm, SFBGS006_esm, SFBGS007_esm,
     SFBGS008_esm, BlueprintShips_Starfield_esm, Constellation_esm,
     OldMars_esm, ShatteredSpace_esm}

SuppliedTo(ns) ==
    Range(ns.full_masters) \cup Range(ns.medium_masters)
        \cup Range(ns.small_masters)

\* C1: every KnownMasters array a run writes holds no two entries with the
\* same ModKey, whatever names the three lists hold.
C1_NoDuplicateModKey ==
    pc = "done" =>
        LET km == KnownMastersOf(file.text)
        IN /\ written[Len(written)] = km
           /\ \A k, l \in 1..Len(km) : k # l => km[k].ModKey # km[l].ModKey

\* a run completed with a name given twice and a built-in name given again
C1_Witness ==
    /\ pc = "done"
    /\ Len(stdout) >= 2
    /\ Starfield_esm \in Range(stdout)
    /\ oldMars_esm \in Range(stdout)

\* C2: a merge step for a name already in the set leaves the set as it is
\* (so the first entry keeps its type) and prints exactly one warning with
\* that name; a merge step for a new name adds it with the type of its list
\* and prints nothing.
C2_MergeStep ==
    [][(pc = "merge" /\ i' = i + 1) =>
        LET master == merge_order(args)[i + 1]
        IN IF \E e \in Entries(known_masters) : e.name = master.name
           THEN /\ known_masters' = known_masters
                /\ stdout' = Append(stdout, master.name)
           ELSE /\ Entries(known_masters') = Entries(known_masters) \cup {master}
                /\ stdout' = stdout]_vars

\* the last merge step met a name already in the set under another type
C2_Witness ==
    /\ pc = "merge"
    /\ i > 0
    /\ stdout # <<>>
    /\ stdout[Len(stdout)] = merge_order(args)[i].name
    /\ \E e \in Entries(known_masters) :
            /\ e.name = merge_order(args)[i].name
            /\ e.type # merge_order(args)[i].type

\* C3: after a completed run the keys of the written document other than
\* KnownMasters are exactly those of the document that was on disk, with the
\* same values; if there was no file the document has the KnownMasters key only.
C3_OtherKeysPreserved ==
    pc = "done" =>
        /\ file.exists
        /\ file.text.t = "object"
        /\ "KnownMasters" \in dict_keys(file.text.members)
        /\ IF file0.exists
           THEN /\ dict_keys(file.text.members) \ {"KnownMasters"}
                    = dict_keys(file0.text.members) \ {"KnownMasters"}
                /\ \A key \in dict_keys(file0.text.members) \ {"KnownMasters"} :
                        dict_get(file.text.members, key)
                            = dict_get(file0.text.members, key)
                /\ Len(file.text.members)
                    = Cardinality(dict_keys(file.text.members))
           ELSE dict_keys(file.text.members) = {"KnownMasters"}
                    /\ Len(file.text.members) = 1

\* a run completed on a file that held other keys around KnownMasters
C3_Witness ==
    /\ pc = "done"
    /\ file0 = TextFile(WithOldMasters)
    /\ run = 1

\* C4: after a completed run the names of the written array are the ten
\* built-in names and the supplied names, each once, whatever array the file
\* held before, and the warnings are exactly those for supplied names that
\* repeat a built-in or an earlier supplied name.
C4_ExactlyBuiltinsAndSupplied ==
    pc = "done" =>
        LET km == KnownMastersOf(file.text)
            names == BuiltinNames \cup SuppliedTo(args)
        IN /\ {km[k].ModKey : k \in 1..Len(km)} = names
           /\ Len(km) = Cardinality(names)
           /\ Cardinality(BuiltinNames) = 10
           /\ Len(stdout) = Len(merge_order(args)) - (Cardinality(names) - 10)

\* a run completed on a file whose old array held a name that is neither
\* built in nor supplied, and a new name was supplied
C4_Witness ==
    /\ pc = "done"
    /\ file0 = TextFile(WithOldMasters)
    /\ Foo_esm \notin SuppliedTo(args)
    /\ oldMars_esm \in SuppliedTo(args)

\* C5: with sort key "name" the written array is ascending by lowercased
\* ModKey.
C5_SortedByName ==
    (pc = "done" /\ args.sort_by = sort_name) =>
        LET km == KnownMastersOf(file.text)
        IN \A k \in 1..(Len(km) - 1) :
            str_le(lower(km[k].ModKey), lower(km[k + 1].ModKey))

\* a run sorted by name completed with a supplied lower-case name
C5_Witness ==
    /\ pc = "done"
    /\ args.sort_by = sort_name
    /\ oldMars_esm \in SuppliedTo(args)

StyleRank(style) == IF style = FULL THEN 0 ELSE IF style = MEDIUM THEN 1 ELSE 2

\* C6: with sort key "type" the written array has all Full entries before
\* all Medium entries before all Small entries, each group ascending by
\* lowercased ModKey.
C6_SortedByType ==
    (pc = "done" /\ args.sort_by = sort_type) =>
        LET km == KnownMastersOf(file.text)
        IN \A k, l \in 1..Len(km) :
            k < l =>
                /\ km[k].Style \in MasterType
                /\ StyleRank(km[k].Style) <= StyleRank(km[l].Style)
                /\ km[k].Style = km[l].Style =>
                        str_le(lower(km[k].ModKey), lower(km[l].ModKey))

\* a run sorted by type completed with a supplied name
C6_Witness ==
    /\ pc = "done"
    /\ args.sort_by = sort_type
    /\ oldMars_esm \in SuppliedTo(args)

\* C7: a second run with the same arguments on the same file writes the
\* KnownMasters array the first run wrote: same entries, types and order.
C7_Idempotent ==
    Len(written) >= 2 =>
        written[2] = written[1]

\* the set main builds from the built-in list and the supplied lists
known_masters_under(ns, salt) ==
    set_from_list(builtin_masters \o merge_order(ns),
                  Len(builtin_masters) + Len(merge_order(ns)), salt)

\* C8: the sorted list is the same whatever order the set yields its
\* elements in, that is, under every hash salt.
C8_OrderIndependentOfIteration ==
    pc = "write" =>
        \A salt \in HashSeeds :
            list_sort(set_iter(known_masters_under(args, salt)), args.sort_by)
                = dict_get(content.d, "KnownMasters").items

\* a list option followed by no name
BareListOption(a) ==
    \E p \in 1..Len(a) :
        a[p] \in list_options /\ (p = Len(a) \/ is_option(a[p + 1]))

\* the command line with the list options that are followed by no name left out
RECURSIVE WithoutBareFrom(_, _)
WithoutBareFrom(a, p) ==
    IF p > Len(a) THEN <<>>
    ELSE IF a[p] \in list_options /\ (p = Len(a) \/ is_option(a[p + 1]))
    THEN WithoutBareFrom(a, p + 1)
    ELSE <<a[p]>> \o WithoutBareFrom(a, p + 1)

WithoutBare(a) == WithoutBareFrom(a, 1)

\* the options given on a command line
OptionsOf(a) == {option_string(a[k]) : k \in {l \in 1..Len(a) : is_option(a[l])}}

\* C9 as stated: a command line that is valid but for a list option followed
\* by no name is accepted and processed as if that option had been left out.
C9_BareOptionAccepted ==
    (pc # "start" /\ BareListOption(argv) /\ parse_args(WithoutBare(argv)).ok) =>
        /\ pc # "usage_error"
        /\ args = parse_args(WithoutBare(argv)).ns

\* C9 amended: a command line with a list option followed by no name is
\* rejected with a usage error before any processing; on an accepted command
\* line the list of a size class is empty exactly when its option is left out.
C9_BareOptionRejected ==
    /\ (pc # "start" /\ BareListOption(argv)) =>
            /\ pc = "usage_error"
            /\ file = file0
            /\ stdout = <<>>
            /\ ~opened_w
    /\ pc \notin {"start", "usage_error"} =>
            /\ (args.full_masters = <<>>) <=> (opt_full_masters \notin OptionsOf(argv))
            /\ (args.medium_masters = <<>>) <=> (opt_medium_masters \notin OptionsOf(argv))
            /\ (args.small_masters = <<>>) <=> (opt_small_masters \notin OptionsOf(argv))

\* a command line whose only defect is a list option followed by no name
\* was rejected
C9_Witness ==
    /\ pc = "usage_error"
    /\ BareListOption(argv)
    /\ parse_args(WithoutBare(argv)).ok

\* C10: the file is opened for writing only after it was read into a dict;
\* a run on an existing file that is not a JSON object never opens it for
\* writing, leaves its content as it was and does not complete; the empty
\* document stands in for a missing file only.
C10_FailedReadLeavesFile ==
    /\ (opened_w /\ pc = "dump") => content.t = "dict"
    /\ (file0.exists /\ file0.text.t # "object") =>
            /\ ~opened_w
            /\ file = file0
            /\ pc \notin {"sort", "write", "dump", "done"}
    /\ (pc = "assign" /\ content = [t |-> "dict", d |-> <<>>]) => ~file0.exists

\* a run on a malformed file crashed
C10_Witness ==
    /\ pc = "crashed"
    /\ file0.exists
    /\ file0.text.t = "malformed"
    /\ file = file0

====
